---- MODULE Spec2Model ----
(***************************************************************************)
(* Authentication backend of finally-project: the User model               *)
(* (models/User.js) and the /auth routes (routes/auth.js).                 *)
(*                                                                         *)
(* Strings that the code only compares or measures (names, passwords,      *)
(* roles) are TLA+ strings.  E-mail addresses are sequences of one-letter  *)
(* strings, so that the e-mail regex, trim and lowercase are computed.     *)
(* Time is counted in ticks, TicksPerDay ticks to a day.                   *)
(***************************************************************************)
EXTENDS Naturals, Sequences, FiniteSets, TLC

(***************************************************************************)
(* Bounds of the model.                                                    *)
(***************************************************************************)
NReq == 2
MaxTime == 3
TicksPerDay == 2

(***************************************************************************)
(* Program constants.                                                      *)
(***************************************************************************)
JwtExpiresInDays == 1
PasswordMinLength == 6
NameMinLength == 2
NameMaxLength == 50

JWT_SECRET == "your-secret-key"

SchemaRoles == {"admin", "manager", "support", "user"}

(***************************************************************************)
(* Input alphabet.                                                         *)
(***************************************************************************)
EmailA == <<"a", "@", "x", ".", "c">>
EmailAUpper == <<"A", "@", "x", ".", "c">>
EmailB == <<"b", "@", "x", ".", "c">>
EmailBad == <<"a", "x", ".", "c">>
EmailNone == <<>>

NameAl == <<"A", "l">>
NameShort == <<"A">>
NameNone == <<>>

PwSecret == "secret1"
PwHunter == "hunter22"
PwShort == "abc"
PwNone == ""

Salts == {"salt1", "salt2"}
Times == 0..MaxTime

(***************************************************************************)
(* String helpers of the JavaScript runtime.                               *)
(***************************************************************************)
IsSpace(ch) == ch = " "

UpperToLower == [ch \in {"A", "B", "X", "C"} |->
                   CASE ch = "A" -> "a" [] ch = "B" -> "b"
                     [] ch = "X" -> "x" [] ch = "C" -> "c"]

toLowerCase(s) ==
  [i \in 1..Len(s) |-> IF s[i] \in DOMAIN UpperToLower THEN UpperToLower[s[i]] ELSE s[i]]

RECURSIVE trimStart(_)
trimStart(s) == IF s # <<>> /\ IsSpace(Head(s)) THEN trimStart(Tail(s)) ELSE s

RECURSIVE trimEnd(_)
trimEnd(s) ==
  IF s # <<>> /\ IsSpace(s[Len(s)]) THEN trimEnd(SubSeq(s, 1, Len(s) - 1)) ELSE s

trim(s) == trimEnd(trimStart(s))

(* /^[^\s@]+@[^\s@]+\.[^\s@]+$/ : no white space, exactly one "@", at      *)
(* least one character before it, and after it a "." that has at least one *)
(* character on each side.                                                 *)
validateEmail(email) ==
  /\ \A k \in 1..Len(email) : ~IsSpace(email[k])
  /\ \E i \in 1..Len(email) :
       /\ email[i] = "@"
       /\ \A k \in 1..Len(email) : email[k] = "@" => k = i
       /\ i > 1
       /\ \E j \in (i + 2)..(Len(email) - 1) : email[j] = "."

validatePassword(password) == password # "" /\ Len(password) >= PasswordMinLength

(***************************************************************************)
(* bcrypt.  A hash records its salt; the plaintext inside a hash is what   *)
(* the digest was computed from and is read only by bcryptCompare.         *)
(***************************************************************************)
Plain(p) == [alg |-> "plain", salt |-> "", text |-> p]

bcryptHash(p, salt) == [alg |-> "bcrypt", salt |-> salt, text |-> p]

bcryptCompare(candidate, stored) ==
  /\ stored.alg = "bcrypt"
  /\ bcryptHash(candidate, stored.salt) = stored

(***************************************************************************)
(* The user store: users[i] is the stored document with _id i.             *)
(***************************************************************************)
VARIABLES users, reqs, issued, now, hasRoleResult, client, updateResult

vars == <<users, reqs, issued, now, hasRoleResult, client, updateResult>>

Null == [id |-> 0]

NoDate == <<>>

PathsOf(d) == DOMAIN d \ {"id", "isNew", "modified"}

(* Schema setters (trim, lowercase) applied when a value is set on a path  *)
(* or cast in a query filter.                                              *)
castName(name) == trim(name)

(* The email path without lowercase: true.                                 *)
castEmailTrimOnly(email) == trim(email)

castEmail(email) == toLowerCase(trim(email))

(* new User({...}) : setters and defaults applied, every given path        *)
(* modified, the document new.                                             *)
NewUser(name, email, password, role) ==
  [id |-> 0,
   name |-> castName(name),
   email |-> castEmail(email),
   password |-> Plain(password),
   role |-> IF role = "" THEN "user" ELSE role,
   lastLogin |-> NoDate,
   isNew |-> TRUE,
   modified |-> {"name", "email", "password", "role"}]

(* A document loaded from the store; the password path is select: false    *)
(* and is loaded only on .select('+password').                             *)
Hydrate(store, i, withPassword) ==
  LET d == store[i]
      all == [id |-> i, name |-> d.name, email |-> d.email, password |-> d.password,
              role |-> d.role, lastLogin |-> d.lastLogin,
              isNew |-> FALSE, modified |-> {}]
  IN IF withPassword THEN all
     ELSE [f \in DOMAIN all \ {"password"} |-> all[f]]

findOne(store, email, withPassword) ==
  LET q == castEmail(email)
      hits == {i \in 1..Len(store) : store[i].email = q}
  IN IF hits = {} THEN Null
     ELSE Hydrate(store, CHOOSE i \in hits : \A j \in hits : i <= j, withPassword)

findById(store, id, withPassword) ==
  IF id \in 1..Len(store) THEN Hydrate(store, id, withPassword) ELSE Null

(* Schema validation of the modified paths, run by save() before the       *)
(* pre('save') hooks.                                                      *)
validateDoc(d) ==
  LET m == d.modified
  IN    (IF "name" \in m /\ d.name = <<>> THEN {"Name is required"} ELSE {})
   \cup (IF "name" \in m /\ d.name # <<>> /\ Len(d.name) < NameMinLength
           THEN {"Name must be at least 2 characters long"} ELSE {})
   \cup (IF "name" \in m /\ Len(d.name) > NameMaxLength
           THEN {"Name cannot exceed 50 characters"} ELSE {})
   \cup (IF "email" \in m /\ d.email = <<>> THEN {"Email is required"} ELSE {})
   \cup (IF "email" \in m /\ d.email # <<>> /\ ~validateEmail(d.email)
           THEN {"Please provide a valid email address"} ELSE {})
   \cup (IF "password" \in m /\ d.password.text = "" THEN {"Password is required"} ELSE {})
   \cup (IF "password" \in m /\ d.password.text # ""
              /\ Len(d.password.text) < PasswordMinLength
           THEN {"Password must be at least 6 characters long"} ELSE {})
   \cup (IF "role" \in m /\ d.role \notin SchemaRoles
           THEN {"Role must be one of: admin, manager, support, user"} ELSE {})

(* userSchema.pre('save') : [err, doc].                                    *)
(* The hook without the isModified('password') test: a loaded document's   *)
(* password, already a hash string, is hashed again.                       *)
preSaveAlwaysHashes(d, salt) ==
  IF "password" \notin DOMAIN d THEN [err |-> "", doc |-> d]
  ELSE IF d.password.alg = "bcrypt"
    THEN [err |-> "",
          doc |-> [d EXCEPT !.password = bcryptHash("$2a$12$", salt),
                            !.modified = @ \cup {"password"}]]
  ELSE IF Len(d.password.text) < PasswordMinLength
         THEN [err |-> "Error", doc |-> d]
         ELSE [err |-> "",
               doc |-> [d EXCEPT !.password = bcryptHash(d.password.text, salt)]]

(* The hook hashing the password of new documents only.                    *)
preSaveOnlyNew(d, salt) ==
  IF ~d.isNew \/ "password" \notin d.modified THEN [err |-> "", doc |-> d]
  ELSE IF Len(d.password.text) < PasswordMinLength
         THEN [err |-> "Error", doc |-> d]
         ELSE [err |-> "",
               doc |-> [d EXCEPT !.password = bcryptHash(d.password.text, salt)]]

preSave(d, salt) ==
  IF "password" \notin d.modified THEN [err |-> "", doc |-> d]
  ELSE IF Len(d.password.text) < PasswordMinLength
         THEN [err |-> "Error", doc |-> d]
         ELSE [err |-> "",
               doc |-> [d EXCEPT !.password = bcryptHash(d.password.text, salt)]]

StoredOf(d) ==
  [name |-> d.name, email |-> d.email, password |-> d.password,
   role |-> d.role, lastLogin |-> d.lastLogin]

(* The insert without the unique index on email.                           *)
dbWriteNoUniqueIndex(store, d) ==
  IF d.isNew
    THEN [err |-> "",
          users |-> Append(store, StoredOf(d)),
          doc |-> [d EXCEPT !.id = Len(store) + 1, !.isNew = FALSE, !.modified = {}]]
    ELSE [err |-> "",
          users |-> [store EXCEPT ![d.id] =
                       [f \in DOMAIN store[d.id] |->
                          IF f \in d.modified THEN d[f] ELSE store[d.id][f]]],
          doc |-> [d EXCEPT !.modified = {}]]

(* The store's write: insertOne for a new document (unique index on        *)
(* email), updateOne $set of the modified paths otherwise.                 *)
dbWrite(store, d) ==
  IF d.isNew
    THEN IF \E i \in 1..Len(store) : store[i].email = d.email
           THEN [err |-> "E11000", users |-> store, doc |-> d]
           ELSE [err |-> "",
                 users |-> Append(store, StoredOf(d)),
                 doc |-> [d EXCEPT !.id = Len(store) + 1, !.isNew = FALSE,
                                   !.modified = {}]]
    ELSE IF d.id \in 1..Len(store)
           THEN [err |-> "",
                 users |-> [store EXCEPT ![d.id] =
                              [f \in DOMAIN store[d.id] |->
                                 IF f \in d.modified THEN d[f] ELSE store[d.id][f]]],
                 doc |-> [d EXCEPT !.modified = {}]]
           ELSE [err |-> "", users |-> store, doc |-> [d EXCEPT !.modified = {}]]

(* document.save() : validation, then the pre('save') hook, then the       *)
(* write.  [err, errors, users, doc].                                      *)
save(store, d, salt) ==
  LET errors == validateDoc(d)
      hooked == preSave(d, salt)
      written == dbWrite(store, hooked.doc)
  IN IF errors # {}
       THEN [err |-> "ValidationError", errors |-> errors, users |-> store, doc |-> d]
     ELSE IF hooked.err # ""
       THEN [err |-> hooked.err, errors |-> {}, users |-> store, doc |-> d]
     ELSE [err |-> written.err, errors |-> {}, users |-> written.users,
           doc |-> written.doc]

(* toJSON / toObject transform: id kept, password deleted.                 *)
transform(ret) == [f \in DOMAIN ret \ {"password"} |-> ret[f]]

toObject(d) == transform([f \in PathsOf(d) \cup {"id"} |-> d[f]])

toJSON(d) == toObject(d)

deletePassword(obj) == [f \in DOMAIN obj \ {"password"} |-> obj[f]]

(* The promise of bcrypt.compare used without await: always truthy.        *)
comparePasswordNotAwaited(d, candidatePassword) == TRUE

comparePassword(d, candidatePassword) == bcryptCompare(candidatePassword, d.password)

(* roleHierarchy[role] : the rank, or 0 for undefined.                     *)
roleHierarchy(role) ==
  CASE role = "user" -> 1
    [] role = "support" -> 2
    [] role = "manager" -> 3
    [] role = "admin" -> 4
    [] OTHER -> 0

(* The comparison written with > instead of >=.                            *)
hasRoleStrict(role, requiredRole) ==
  /\ roleHierarchy(role) # 0
  /\ roleHierarchy(requiredRole) # 0
  /\ roleHierarchy(role) > roleHierarchy(requiredRole)

(* undefined >= n and n >= undefined are false in JavaScript.              *)
hasRole(role, requiredRole) ==
  /\ roleHierarchy(role) # 0
  /\ roleHierarchy(requiredRole) # 0
  /\ roleHierarchy(role) >= roleHierarchy(requiredRole)

(***************************************************************************)
(* Tokens.  A bearer header is absent, malformed, or a JWT carrying        *)
(* {id, role, email, iat, exp} and the secret it was signed with.          *)
(***************************************************************************)
NoHeader == [kind |-> "none"]

Malformed == [kind |-> "malformed"]

JwtTtl == JwtExpiresInDays * TicksPerDay

(* jwt.sign without the expiresIn option: the token never expires.         *)
jwtSignNoExpiry(d, t) ==
  [kind |-> "jwt", id |-> d.id, role |-> d.role, email |-> d.email,
   iat |-> t, exp |-> t + JwtTtl + MaxTime + 1, secret |-> JWT_SECRET]

(* jwt.sign({id, role, email}, secret, {expiresIn}) at time t.             *)
jwtSign(d, t) ==
  [kind |-> "jwt", id |-> d.id, role |-> d.role, email |-> d.email,
   iat |-> t, exp |-> t + JwtTtl, secret |-> JWT_SECRET]

(* A token signed by someone who does not hold the server's secret.        *)
Forged == [kind |-> "jwt", id |-> 1, role |-> "admin", email |-> EmailA,
           iat |-> 0, exp |-> MaxTime + 1, secret |-> "not-the-secret"]

(* jwt.verify : "ok", or the reason of the failure.                        *)
jwtVerify(header, t) ==
  IF header.kind # "jwt" THEN "JsonWebTokenError"
  ELSE IF header.secret # JWT_SECRET THEN "JsonWebTokenError"
  ELSE IF t >= header.exp THEN "TokenExpiredError"
  ELSE "ok"

(* authMiddleware : [status, user]; status 0 lets the handler run with     *)
(* req.user set to the token's payload.                                    *)
authMiddleware(header, t) ==
  IF header.kind = "none" THEN [status |-> 401, user |-> Null]
  ELSE IF jwtVerify(header, t) # "ok" THEN [status |-> 401, user |-> Null]
  ELSE [status |-> 0,
        user |-> [id |-> header.id, role |-> header.role, email |-> header.email]]

(***************************************************************************)
(* Requests.  reqs[r] is the r-th request made to the server: its input,   *)
(* the handler's position and locals, and its response once sent.          *)
(***************************************************************************)
NoBody == [none |-> TRUE]

Body(name, email, password, role, currentPassword, newPassword) ==
  [name |-> name, email |-> email, password |-> password, role |-> role,
   currentPassword |-> currentPassword, newPassword |-> newPassword]

Idle ==
  [kind |-> "none", body |-> Body(<<>>, <<>>, "", "", "", ""), auth |-> NoHeader,
   pc |-> "idle", user |-> Null, identity |-> Null, status |-> 0, res |-> NoBody]

Fail(message) == [success |-> FALSE, message |-> message]

(* res.status(status).json(body) ends the request.                         *)
Respond(q, status, body) == [q EXCEPT !.pc = "done", !.status = status, !.res = body]

Received(r, kind, body, auth) ==
  [Idle EXCEPT !.kind = kind, !.body = body, !.auth = auth]

CanStart(r) == reqs[r].pc = "idle" /\ \A k \in 1..(r - 1) : reqs[k].pc # "idle"

(* The input checks at the head of each handler: the status and message of *)
(* the rejection, or status 0.                                             *)
(* The login checks without the password length check.                     *)
loginValidateNoLength(b) ==
  IF b.email = <<>> \/ b.password = ""
    THEN [status |-> 400, message |-> "Email and password are required"]
  ELSE IF ~validateEmail(b.email)
    THEN [status |-> 400, message |-> "Invalid email format"]
  ELSE [status |-> 0, message |-> ""]

loginValidate(b) ==
  IF b.email = <<>> \/ b.password = ""
    THEN [status |-> 400, message |-> "Email and password are required"]
  ELSE IF ~validateEmail(b.email)
    THEN [status |-> 400, message |-> "Invalid email format"]
  ELSE IF ~validatePassword(b.password)
    THEN [status |-> 400, message |-> "Password must be at least 6 characters long"]
  ELSE [status |-> 0, message |-> ""]

registerValidate(b) ==
  IF b.name = <<>> \/ b.email = <<>> \/ b.password = ""
    THEN [status |-> 400, message |-> "Name, email and password are required"]
  ELSE IF ~validateEmail(b.email)
    THEN [status |-> 400, message |-> "Invalid email format"]
  ELSE IF ~validatePassword(b.password)
    THEN [status |-> 400, message |-> "Password must be at least 6 characters long"]
  ELSE [status |-> 0, message |-> ""]

(* The role check placed after the input checks.                           *)
createUserValidateRoleLast(identity, b) ==
  IF b.name = <<>> \/ b.email = <<>> \/ b.password = "" \/ b.role = ""
    THEN [status |-> 400, message |-> "All fields are required"]
  ELSE IF ~validateEmail(b.email)
    THEN [status |-> 400, message |-> "Invalid email format"]
  ELSE IF ~validatePassword(b.password)
    THEN [status |-> 400, message |-> "Password must be at least 6 characters long"]
  ELSE IF identity.role # "admin"
    THEN [status |-> 403, message |-> "Access denied. Admin only."]
  ELSE [status |-> 0, message |-> ""]

createUserValidate(identity, b) ==
  IF identity.role # "admin"
    THEN [status |-> 403, message |-> "Access denied. Admin only."]
  ELSE IF b.name = <<>> \/ b.email = <<>> \/ b.password = "" \/ b.role = ""
    THEN [status |-> 400, message |-> "All fields are required"]
  ELSE IF ~validateEmail(b.email)
    THEN [status |-> 400, message |-> "Invalid email format"]
  ELSE IF ~validatePassword(b.password)
    THEN [status |-> 400, message |-> "Password must be at least 6 characters long"]
  ELSE [status |-> 0, message |-> ""]

changePasswordValidate(b) ==
  IF b.currentPassword = "" \/ b.newPassword = ""
    THEN [status |-> 400, message |-> "Current password and new password are required"]
  ELSE IF ~validatePassword(b.newPassword)
    THEN [status |-> 400, message |-> "New password must be at least 6 characters long"]
  ELSE [status |-> 0, message |-> ""]

(* The loaded document serialised as it is.                                *)
userResponseRaw(d) == [f \in PathsOf(d) \cup {"id"} |-> d[f]]

(* const userResponse = user.toObject(); delete userResponse.password;     *)
userResponse(d) == deletePassword(toObject(d))

(* The catch block of register and of admin/create-user.                   *)
saveErrorResponse(w, what) ==
  IF w.err = "ValidationError"
    THEN [status |-> 400,
          body |-> [success |-> FALSE, message |-> "Validation error",
                    errors |-> w.errors]]
  ELSE IF w.err = "E11000"
    THEN [status |-> 409, body |-> Fail("User already exists with this email")]
  ELSE [status |-> 500, body |-> Fail(what)]

(* The routes registered with authMiddleware before their handler.         *)
ProtectedRoutes == {"me", "createUser", "changePassword", "refreshToken"}

(* refresh-token registered without authMiddleware.                        *)
routeGuardRefreshUnprotected(route, header, t) ==
  IF route \in ProtectedRoutes \ {"refreshToken"} THEN authMiddleware(header, t)
  ELSE [status |-> 0, user |-> Null]

(* The guard refusing the tokens of a user whose password has been        *)
(* changed since.                                                          *)
routeGuardRejectsAfterPasswordChange(route, header, t) ==
  IF route \notin ProtectedRoutes THEN [status |-> 0, user |-> Null]
  ELSE IF /\ header.kind = "jwt"
          /\ \E c \in DOMAIN reqs :
               /\ reqs[c].kind = "changePassword" /\ reqs[c].status = 200
               /\ reqs[c].identity.id = header.id
    THEN [status |-> 401, user |-> Null]
  ELSE authMiddleware(header, t)

routeGuard(route, header, t) ==
  IF route \in ProtectedRoutes THEN authMiddleware(header, t)
  ELSE [status |-> 0, user |-> Null]

(***************************************************************************)
(* Inputs the clients send.                                                *)
(***************************************************************************)
LoginBodies ==
  {Body(<<>>, EmailA, PwSecret, "", "", ""),
   Body(<<>>, EmailAUpper, PwSecret, "", "", ""),
   Body(<<>>, EmailA, PwHunter, "", "", ""),
   Body(<<>>, EmailB, PwSecret, "", "", ""),
   Body(<<>>, EmailBad, PwSecret, "", "", ""),
   Body(<<>>, EmailA, PwShort, "", "", ""),
   Body(<<>>, EmailNone, PwSecret, "", "", "")}

RegisterBodies ==
  {Body(NameAl, EmailA, PwSecret, "", "", ""),
   Body(NameAl, EmailAUpper, PwSecret, "", "", ""),
   Body(NameAl, EmailB, PwSecret, "admin", "", ""),
   Body(NameNone, EmailA, PwSecret, "", "", ""),
   Body(NameShort, EmailB, PwSecret, "", "", ""),
   Body(NameAl, EmailBad, PwSecret, "", "", ""),
   Body(NameAl, EmailA, PwShort, "", "", ""),
   Body(NameAl, EmailB, PwSecret, "root", "", "")}

CreateBodies ==
  {Body(NameAl, EmailA, PwSecret, "support", "", ""),
   Body(NameAl, EmailB, PwSecret, "", "", ""),
   Body(NameAl, EmailBad, PwSecret, "admin", "", ""),
   Body(NameShort, EmailA, PwShort, "user", "", "")}

ChangeBodies ==
  {Body(<<>>, <<>>, "", "", PwSecret, PwHunter),
   Body(<<>>, <<>>, "", "", PwHunter, PwSecret),
   Body(<<>>, <<>>, "", "", PwHunter, PwShort),
   Body(<<>>, <<>>, "", "", PwNone, PwHunter),
   Body(<<>>, <<>>, "", "", PwShort, PwHunter)}

AuthInputs == issued \cup {NoHeader, Malformed, Forged}

(***************************************************************************)
(* POST /auth/login                                                        *)
(***************************************************************************)
PostLogin(r, b) ==
  /\ CanStart(r)
  /\ LET q == Received(r, "login", b, NoHeader)
         v == loginValidate(b)
     IN reqs' = [reqs EXCEPT ![r] =
                   IF v.status # 0 THEN Respond(q, v.status, Fail(v.message))
                   ELSE [q EXCEPT !.pc = "findOne"]]
  /\ UNCHANGED <<users, issued, now, hasRoleResult, client, updateResult>>

LoginFindOne(r) ==
  /\ reqs[r].kind = "login" /\ reqs[r].pc = "findOne"
  /\ LET q == reqs[r]
         u == findOne(users, q.body.email, TRUE)
     IN reqs' = [reqs EXCEPT ![r] =
                   IF u = Null
                     THEN Respond(q, 401, Fail("Invalid email or password"))
                   ELSE IF ~comparePassword(u, q.body.password)
                     THEN Respond([q EXCEPT !.user = u], 401,
                                  Fail("Invalid email or password"))
                   ELSE [q EXCEPT !.pc = "save",
                                  !.user = [u EXCEPT !.lastLogin = <<now>>,
                                                     !.modified = {"lastLogin"}]]]
  /\ UNCHANGED <<users, issued, now, hasRoleResult, client, updateResult>>

LoginSave(r) ==
  /\ reqs[r].kind = "login" /\ reqs[r].pc = "save"
  /\ \E salt \in Salts :
       LET q == reqs[r]
           w == save(users, q.user, salt)
           token == jwtSign(w.doc, now)
       IN IF w.err # ""
            THEN /\ reqs' = [reqs EXCEPT ![r] =
                               Respond(q, 500, Fail("Server error during authentication"))]
                 /\ UNCHANGED <<users, issued>>
            ELSE /\ users' = w.users
                 /\ issued' = issued \cup {token}
                 /\ reqs' = [reqs EXCEPT ![r] =
                               Respond([q EXCEPT !.user = w.doc], 200,
                                       [success |-> TRUE, token |-> token,
                                        user |-> userResponse(w.doc),
                                        message |-> "Login successful"])]
  /\ UNCHANGED <<now, hasRoleResult, client, updateResult>>

(***************************************************************************)
(* POST /auth/register                                                     *)
(***************************************************************************)
PostRegister(r, b) ==
  /\ CanStart(r)
  /\ LET q == Received(r, "register", b, NoHeader)
         v == registerValidate(b)
     IN reqs' = [reqs EXCEPT ![r] =
                   IF v.status # 0 THEN Respond(q, v.status, Fail(v.message))
                   ELSE [q EXCEPT !.pc = "findOne"]]
  /\ UNCHANGED <<users, issued, now, hasRoleResult, client, updateResult>>

RegisterFindOne(r) ==
  /\ reqs[r].kind = "register" /\ reqs[r].pc = "findOne"
  /\ LET q == reqs[r]
         b == q.body
         existingUser == findOne(users, b.email, FALSE)
     IN reqs' = [reqs EXCEPT ![r] =
                   IF existingUser # Null
                     THEN Respond([q EXCEPT !.user = existingUser], 409,
                                  Fail("User already exists with this email"))
                   ELSE [q EXCEPT !.pc = "save",
                                  !.user = NewUser(b.name, b.email, b.password,
                                                   IF b.role = "" THEN "user" ELSE b.role)]]
  /\ UNCHANGED <<users, issued, now, hasRoleResult, client, updateResult>>

RegisterSave(r) ==
  /\ reqs[r].kind = "register" /\ reqs[r].pc = "save"
  /\ \E salt \in Salts :
       LET q == reqs[r]
           w == save(users, q.user, salt)
           e == saveErrorResponse(w, "Server error during registration")
           token == jwtSign(w.doc, now)
       IN IF w.err # ""
            THEN /\ reqs' = [reqs EXCEPT ![r] = Respond(q, e.status, e.body)]
                 /\ UNCHANGED <<users, issued>>
            ELSE /\ users' = w.users
                 /\ issued' = issued \cup {token}
                 /\ reqs' = [reqs EXCEPT ![r] =
                               Respond([q EXCEPT !.user = w.doc], 201,
                                       [success |-> TRUE,
                                        message |-> "User registered successfully",
                                        token |-> token,
                                        user |-> userResponse(w.doc)])]
  /\ UNCHANGED <<now, hasRoleResult, client, updateResult>>

(***************************************************************************)
(* GET /auth/me                                                            *)
(***************************************************************************)
GetMe(r, header) ==
  /\ CanStart(r)
  /\ LET q == Received(r, "me", Idle.body, header)
         a == routeGuard("me", header, now)
     IN reqs' = [reqs EXCEPT ![r] =
                   IF a.status # 0 THEN Respond(q, a.status, Fail("Unauthorized"))
                   ELSE IF a.user = Null
                     THEN Respond(q, 500, Fail("Server error while fetching user data"))
                   ELSE [q EXCEPT !.identity = a.user, !.pc = "findById"]]
  /\ UNCHANGED <<users, issued, now, hasRoleResult, client, updateResult>>

MeFindById(r) ==
  /\ reqs[r].kind = "me" /\ reqs[r].pc = "findById"
  /\ LET q == reqs[r]
         u == findById(users, q.identity.id, FALSE)
     IN reqs' = [reqs EXCEPT ![r] =
                   IF u = Null THEN Respond(q, 404, Fail("User not found"))
                   ELSE Respond([q EXCEPT !.user = u], 200,
                                [success |-> TRUE, user |-> toJSON(u)])]
  /\ UNCHANGED <<users, issued, now, hasRoleResult, client, updateResult>>

(***************************************************************************)
(* POST /auth/admin/create-user                                            *)
(***************************************************************************)
PostCreateUser(r, header, b) ==
  /\ CanStart(r)
  /\ LET q == Received(r, "createUser", b, header)
         a == routeGuard("createUser", header, now)
         v == createUserValidate(a.user, b)
     IN reqs' = [reqs EXCEPT ![r] =
                   IF a.status # 0 THEN Respond(q, a.status, Fail("Unauthorized"))
                   ELSE IF a.user = Null
                     THEN Respond(q, 500, Fail("Server error while creating user"))
                   ELSE IF v.status # 0
                     THEN Respond([q EXCEPT !.identity = a.user], v.status, Fail(v.message))
                   ELSE [q EXCEPT !.identity = a.user, !.pc = "findOne"]]
  /\ UNCHANGED <<users, issued, now, hasRoleResult, client, updateResult>>

CreateUserFindOne(r) ==
  /\ reqs[r].kind = "createUser" /\ reqs[r].pc = "findOne"
  /\ LET q == reqs[r]
         b == q.body
         existingUser == findOne(users, b.email, FALSE)
     IN reqs' = [reqs EXCEPT ![r] =
                   IF existingUser # Null
                     THEN Respond([q EXCEPT !.user = existingUser], 409,
                                  Fail("User already exists with this email"))
                   ELSE [q EXCEPT !.pc = "save",
                                  !.user = NewUser(b.name, b.email, b.password, b.role)]]
  /\ UNCHANGED <<users, issued, now, hasRoleResult, client, updateResult>>

CreateUserSave(r) ==
  /\ reqs[r].kind = "createUser" /\ reqs[r].pc = "save"
  /\ \E salt \in Salts :
       LET q == reqs[r]
           w == save(users, q.user, salt)
           e == saveErrorResponse(w, "Server error while creating user")
       IN IF w.err # ""
            THEN /\ reqs' = [reqs EXCEPT ![r] = Respond(q, e.status, e.body)]
                 /\ UNCHANGED users
            ELSE /\ users' = w.users
                 /\ reqs' = [reqs EXCEPT ![r] =
                               Respond([q EXCEPT !.user = w.doc], 201,
                                       [success |-> TRUE,
                                        message |-> "User created successfully",
                                        user |-> userResponse(w.doc)])]
  /\ UNCHANGED <<issued, now, hasRoleResult, client, updateResult>>

(* The handler comparing newPassword where it should compare               *)
(* currentPassword.                                                        *)
ChangePasswordFindByIdComparesNew(r) ==
  /\ reqs[r].kind = "changePassword" /\ reqs[r].pc = "findById"
  /\ LET q == reqs[r]
         u == findById(users, q.identity.id, TRUE)
     IN reqs' = [reqs EXCEPT ![r] =
                   IF u = Null THEN Respond(q, 404, Fail("User not found"))
                   ELSE IF ~comparePassword(u, q.body.newPassword)
                     THEN Respond([q EXCEPT !.user = u], 401,
                                  Fail("Current password is incorrect"))
                   ELSE [q EXCEPT !.pc = "save",
                                  !.user = [u EXCEPT !.password = Plain(q.body.newPassword),
                                                     !.modified = {"password"}]]]
  /\ UNCHANGED <<users, issued, now, hasRoleResult, client, updateResult>>

(***************************************************************************)
(* POST /auth/change-password                                              *)
(***************************************************************************)
PostChangePassword(r, header, b) ==
  /\ CanStart(r)
  /\ LET q == Received(r, "changePassword", b, header)
         a == routeGuard("changePassword", header, now)
         v == changePasswordValidate(b)
     IN reqs' = [reqs EXCEPT ![r] =
                   IF a.status # 0 THEN Respond(q, a.status, Fail("Unauthorized"))
                   ELSE IF v.status # 0
                     THEN Respond([q EXCEPT !.identity = a.user], v.status, Fail(v.message))
                   ELSE IF a.user = Null
                     THEN Respond(q, 500, Fail("Server error while changing password"))
                   ELSE [q EXCEPT !.identity = a.user, !.pc = "findById"]]
  /\ UNCHANGED <<users, issued, now, hasRoleResult, client, updateResult>>

ChangePasswordFindById(r) ==
  /\ reqs[r].kind = "changePassword" /\ reqs[r].pc = "findById"
  /\ LET q == reqs[r]
         u == findById(users, q.identity.id, TRUE)
     IN reqs' = [reqs EXCEPT ![r] =
                   IF u = Null THEN Respond(q, 404, Fail("User not found"))
                   ELSE IF ~comparePassword(u, q.body.currentPassword)
                     THEN Respond([q EXCEPT !.user = u], 401,
                                  Fail("Current password is incorrect"))
                   ELSE [q EXCEPT !.pc = "save",
                                  !.user = [u EXCEPT !.password = Plain(q.body.newPassword),
                                                     !.modified = {"password"}]]]
  /\ UNCHANGED <<users, issued, now, hasRoleResult, client, updateResult>>

ChangePasswordSave(r) ==
  /\ reqs[r].kind = "changePassword" /\ reqs[r].pc = "save"
  /\ \E salt \in Salts :
       LET q == reqs[r]
           w == save(users, q.user, salt)
       IN IF w.err # ""
            THEN /\ reqs' = [reqs EXCEPT ![r] =
                               Respond(q, 500, Fail("Server error while changing password"))]
                 /\ UNCHANGED users
            ELSE /\ users' = w.users
                 /\ reqs' = [reqs EXCEPT ![r] =
                               Respond([q EXCEPT !.user = w.doc], 200,
                                       [success |-> TRUE,
                                        message |-> "Password updated successfully"])]
  /\ UNCHANGED <<issued, now, hasRoleResult, client, updateResult>>

(***************************************************************************)
(* POST /auth/refresh-token                                                *)
(***************************************************************************)
PostRefreshToken(r, header) ==
  /\ CanStart(r)
  /\ LET q == Received(r, "refreshToken", Idle.body, header)
         a == routeGuard("refreshToken", header, now)
     IN reqs' = [reqs EXCEPT ![r] =
                   IF a.status # 0 THEN Respond(q, a.status, Fail("Unauthorized"))
                   ELSE IF a.user = Null
                     THEN Respond(q, 500, Fail("Server error while refreshing token"))
                   ELSE [q EXCEPT !.identity = a.user, !.pc = "findById"]]
  /\ UNCHANGED <<users, issued, now, hasRoleResult, client, updateResult>>

(* The handler signing the new token from req.user, the payload of the     *)
(* presented token.                                                        *)
RefreshTokenFromPayload(r) ==
  /\ reqs[r].kind = "refreshToken" /\ reqs[r].pc = "findById"
  /\ LET q == reqs[r]
         u == findById(users, q.identity.id, FALSE)
         token == jwtSign(q.identity, now)
     IN IF u = Null
          THEN /\ reqs' = [reqs EXCEPT ![r] = Respond(q, 404, Fail("User not found"))]
               /\ UNCHANGED issued
          ELSE /\ issued' = issued \cup {token}
               /\ reqs' = [reqs EXCEPT ![r] =
                             Respond([q EXCEPT !.user = u], 200,
                                     [success |-> TRUE, token |-> token,
                                      message |-> "Token refreshed successfully"])]
  /\ UNCHANGED <<users, now, hasRoleResult, client, updateResult>>

RefreshTokenFindById(r) ==
  /\ reqs[r].kind = "refreshToken" /\ reqs[r].pc = "findById"
  /\ LET q == reqs[r]
         u == findById(users, q.identity.id, FALSE)
         token == jwtSign(u, now)
     IN IF u = Null
          THEN /\ reqs' = [reqs EXCEPT ![r] = Respond(q, 404, Fail("User not found"))]
               /\ UNCHANGED issued
          ELSE /\ issued' = issued \cup {token}
               /\ reqs' = [reqs EXCEPT ![r] =
                             Respond([q EXCEPT !.user = u], 200,
                                     [success |-> TRUE, token |-> token,
                                      message |-> "Token refreshed successfully"])]
  /\ UNCHANGED <<users, now, hasRoleResult, client, updateResult>>

(***************************************************************************)
(* Time passes.                                                            *)
(***************************************************************************)
Tick ==
  /\ now < MaxTime
  /\ now' = now + 1
  /\ UNCHANGED <<users, reqs, issued, hasRoleResult, client, updateResult>>

(* hasRoleResult before any call of hasRole.                               *)
NoCall == [role |-> "", requiredRole |-> "", result |-> FALSE]

(* updateResult before any call of findOneAndUpdate.                       *)
NoUpdate == [shape |-> "", password |-> "", nexts |-> <<>>, err |-> "", written |-> FALSE]

(***************************************************************************)
(* The browser client: AuthProvider of context/AuthContext.jsx and the     *)
(* ProtectedRoute component of App.jsx.  null and an absent storage key    *)
(* are <<>>, a present value v is <<v>>.                                   *)
(***************************************************************************)
MaxCalls == 3
MaxLoads == 2

AdminEmail ==
  <<"a", "d", "m", "i", "n", "@", "e", "x", "a", "m", "p", "l", "e", ".", "c", "o", "m">>
UserEmail ==
  <<"u", "s", "e", "r", "@", "e", "x", "a", "m", "p", "l", "e", ".", "c", "o", "m">>
DemoPassword == "password"

(* Ids are 'admin-123', 'user-456' and `user-${Date.now()}`.               *)
Id(prefix, n) == [prefix |-> prefix, n |-> n]

(* The object literal a render of AuthProvider builds, keyed by e-mail.    *)
simulatedUsers ==
  {[email |-> AdminEmail, password |-> DemoPassword, role |-> "admin", id |-> Id("admin", 123)],
   [email |-> UserEmail, password |-> DemoPassword, role |-> "user", id |-> Id("user", 456)]}

(* table[email] : <<>> when undefined.                                     *)
Lookup(table, email) ==
  IF \E u \in table : u.email = email
    THEN <<CHOOSE u \in table : u.email = email>>
    ELSE <<>>

(* table[email] = user                                                     *)
Assign(table, user) == {u \in table : u.email # user.email} \cup {user}

(* JSON.stringify of { email, uid } and JSON.parse of a stored item; an    *)
(* item that is not the text of an object makes the reader throw.          *)
JSONstringify(userData) == [json |-> TRUE, email |-> userData.email, uid |-> userData.uid]

NotJSON == [json |-> FALSE, email |-> <<>>, uid |-> Id("", 0)]

JSONparse(item) == [ok |-> item.json, value |-> [email |-> item.email, uid |-> item.uid]]

StorageKeys == {"currentUser", "userRole", "userId"}

StorageEmpty == [k \in StorageKeys |-> <<>>]

(* localStorage after setItem of the three keys.                           *)
StorageSession(userData, role, id) ==
  [currentUser |-> <<JSONstringify(userData)>>, userRole |-> <<role>>, userId |-> <<id>>]

(* What localStorage may hold at the first load: nothing, the session of   *)
(* a demo user, a currentUser item that is not JSON, and the session of a  *)
(* demo user whose userRole item has been edited.                          *)
InitialStorages ==
  {StorageEmpty,
   StorageSession([email |-> UserEmail, uid |-> Id("user", 456)], "user", Id("user", 456)),
   [StorageEmpty EXCEPT !.currentUser = <<NotJSON>>, !.userRole = <<"user">>,
                        !.userId = <<Id("user", 456)>>],
   StorageSession([email |-> UserEmail, uid |-> Id("user", 456)], "admin", Id("user", 456))}

NoCallYet ==
  [pc |-> "idle", kind |-> "none", email |-> <<>>, password |-> "", role |-> "",
   gen |-> 0, page |-> 0, outcome |-> "", user |-> <<>>]

(* The provider at mount: useState initial values (lines 22-25), the first *)
(* render's table, and the page at location "/".                           *)
ClientStart(storage) ==
  [loading |-> TRUE, currentUser |-> <<>>, userRole |-> "guest", userId |-> <<>>,
   storage |-> storage, tables |-> <<simulatedUsers>>,
   calls |-> [c \in 1..MaxCalls |-> NoCallYet],
   clock |-> 0, page |-> 1, location |-> "/"]

Memory(cl) == <<cl.loading, cl.currentUser, cl.userRole, cl.userId>>

(* A state change re-renders the provider: the component function runs     *)
(* again and builds a new simulatedUsers, which the closures of that       *)
(* render capture.  force: the setter was given a new object.              *)
Rerender(old, new, force) ==
  IF force \/ Memory(old) # Memory(new)
    THEN [new EXCEPT !.tables = Append(@, simulatedUsers)]
    ELSE new

(* clearAuthStorage leaving the userRole key in storage.                   *)
clearAuthStorageKeepsRole(cl) ==
  [cl EXCEPT !.storage.currentUser = <<>>, !.storage.userId = <<>>,
             !.currentUser = <<>>, !.userRole = "guest", !.userId = <<>>]

clearAuthStorage(cl) ==
  [cl EXCEPT !.storage = StorageEmpty,
             !.currentUser = <<>>, !.userRole = "guest", !.userId = <<>>]

clientValidateEmail(email) ==
  /\ \A k \in 1..Len(email) : ~IsSpace(email[k])
  /\ \E i \in 1..Len(email) :
       /\ email[i] = "@"
       /\ \A k \in 1..Len(email) : email[k] = "@" => k = i
       /\ i > 1
       /\ \E j \in (i + 2)..(Len(email) - 1) : email[j] = "."

ClientPasswordMinLength == 6

clientValidatePassword(password) ==
  password # "" /\ Len(password) >= ClientPasswordMinLength

(* checkAuthStatus with setLoading(false) at the end of the try block      *)
(* instead of in finally.                                                  *)
checkAuthStatusNoFinally(cl) ==
  LET st == cl.storage
  IN IF st.currentUser # <<>> /\ st.userRole # <<>> /\ st.userRole # <<"">>
          /\ st.userId # <<>>
       THEN LET parsed == JSONparse(st.currentUser[1])
            IN IF ~parsed.ok THEN clearAuthStorage(cl)
               ELSE IF Lookup(cl.tables[1], parsed.value.email) # <<>>
                 THEN [cl EXCEPT !.currentUser = <<parsed.value>>,
                                 !.userRole = st.userRole[1],
                                 !.userId = <<st.userId[1]>>,
                                 !.loading = FALSE]
               ELSE [clearAuthStorage(cl) EXCEPT !.loading = FALSE]
       ELSE [cl EXCEPT !.loading = FALSE]

(* The effect of the first render of a mount (lines 43-74); its closure    *)
(* holds that render's table.                                              *)
checkAuthStatus(cl) ==
  LET st == cl.storage
      checked ==
        IF st.currentUser # <<>> /\ st.userRole # <<>> /\ st.userRole # <<"">>
             /\ st.userId # <<>>
          THEN LET parsed == JSONparse(st.currentUser[1])
               IN IF ~parsed.ok THEN clearAuthStorage(cl)
                  ELSE IF Lookup(cl.tables[1], parsed.value.email) # <<>>
                    THEN [cl EXCEPT !.currentUser = <<parsed.value>>,
                                    !.userRole = st.userRole[1],
                                    !.userId = <<st.userId[1]>>]
                  ELSE clearAuthStorage(cl)
          ELSE cl
  IN [checked EXCEPT !.loading = FALSE]

(***************************************************************************)
(* The client's calls.  client.calls[c] is the c-th call of register,      *)
(* login or logout made by the page: its arguments, the render whose       *)
(* closure it runs in, and how its promise settled.  Each call waits in a  *)
(* timer before it acts.                                                   *)
(***************************************************************************)
Reject(cl, c, code) ==
  [cl EXCEPT !.calls[c].pc = "done", !.calls[c].outcome = code]

Resolve(cl, c, userData) ==
  [cl EXCEPT !.calls[c].pc = "done", !.calls[c].outcome = "resolved",
             !.calls[c].user = userData]

(* The body of register's timer (lines 100-137), run at time cl.clock.     *)
register(cl, c) ==
  LET q == cl.calls[c]
  IN IF ~clientValidateEmail(q.email) THEN Reject(cl, c, "auth/invalid-email")
     ELSE IF ~clientValidatePassword(q.password) THEN Reject(cl, c, "auth/weak-password")
     ELSE IF Lookup(cl.tables[q.gen], q.email) # <<>>
       THEN Reject(cl, c, "auth/email-already-in-use")
     ELSE LET newUserId == Id("user", cl.clock)
              newUser == [email |-> q.email, password |-> q.password,
                          role |-> q.role, id |-> newUserId]
              userData == [email |-> q.email, uid |-> newUserId]
              set == [cl EXCEPT !.tables[q.gen] = Assign(@, newUser),
                                !.storage = StorageSession(userData, q.role, newUserId),
                                !.currentUser = <<userData>>,
                                !.userRole = q.role,
                                !.userId = <<newUserId>>]
          IN Rerender(cl, Resolve(set, c, <<userData>>), TRUE)

(* login clearing the session when the credentials are refused.            *)
loginClearsOnFailure(cl, c) ==
  LET q == cl.calls[c]
      user == Lookup(cl.tables[q.gen], q.email)
  IN IF user # <<>> /\ user[1].password = q.password
       THEN LET userData == [email |-> q.email, uid |-> user[1].id]
                set == [cl EXCEPT !.storage = StorageSession(userData, user[1].role, user[1].id),
                                  !.currentUser = <<userData>>,
                                  !.userRole = user[1].role,
                                  !.userId = <<user[1].id>>]
            IN Rerender(cl, Resolve(set, c, <<userData>>), TRUE)
     ELSE Rerender(cl, Reject(clearAuthStorage(cl), c, "auth/invalid-credential"), FALSE)

(* The body of login's timer (lines 146-177).                              *)
login(cl, c) ==
  LET q == cl.calls[c]
      user == Lookup(cl.tables[q.gen], q.email)
  IN IF ~clientValidateEmail(q.email) THEN Reject(cl, c, "auth/invalid-email")
     ELSE IF ~clientValidatePassword(q.password)
       THEN Reject(cl, c, "auth/invalid-credential")
     ELSE IF user # <<>> /\ user[1].password = q.password
       THEN LET userData == [email |-> q.email, uid |-> user[1].id]
                set == [cl EXCEPT !.storage = StorageSession(userData, user[1].role, user[1].id),
                                  !.currentUser = <<userData>>,
                                  !.userRole = user[1].role,
                                  !.userId = <<user[1].id>>]
            IN Rerender(cl, Resolve(set, c, <<userData>>), TRUE)
     ELSE Reject(cl, c, "auth/invalid-credential")

(* logout resetting the state without removing the stored keys.            *)
logoutMemoryOnly(cl, c) ==
  Rerender(cl, [cl EXCEPT !.currentUser = <<>>, !.userRole = "guest", !.userId = <<>>,
                          !.calls[c].pc = "done", !.calls[c].outcome = "resolved"], FALSE)

(* The body of logout's timer (lines 186-187).                             *)
logout(cl, c) ==
  Rerender(cl, [clearAuthStorage(cl) EXCEPT !.calls[c].pc = "done",
                                            !.calls[c].outcome = "resolved"], FALSE)

ServerIdle == UNCHANGED <<users, reqs, issued, now, hasRoleResult, updateResult>>

CanCall(c) ==
  /\ ~client.loading
  /\ client.calls[c].pc = "idle"
  /\ \A k \in 1..(c - 1) : client.calls[k].pc # "idle"

Called(kind, email, password, role) ==
  [NoCallYet EXCEPT !.pc = "pending", !.kind = kind, !.email = email,
                    !.password = password, !.role = role,
                    !.gen = Len(client.tables), !.page = client.page]

CheckAuthStatus ==
  /\ client.loading
  /\ client' = Rerender(client, checkAuthStatus(client), FALSE)
  /\ ServerIdle

CallRegister(c, email, password, role) ==
  /\ CanCall(c)
  /\ client' = [client EXCEPT !.calls[c] = Called("register", email, password, role)]
  /\ ServerIdle

CallLogin(c, email, password) ==
  /\ CanCall(c)
  /\ client' = [client EXCEPT !.calls[c] = Called("login", email, password, "")]
  /\ ServerIdle

CallLogout(c) ==
  /\ CanCall(c)
  /\ client' = [client EXCEPT !.calls[c] = Called("logout", <<>>, "", "")]
  /\ ServerIdle

Ticked(cl) == [cl EXCEPT !.clock = @ + 1]

RegisterTimeout(c) ==
  /\ client.calls[c].pc = "pending" /\ client.calls[c].kind = "register"
  /\ client' = register(Ticked(client), c)
  /\ ServerIdle

LoginTimeout(c) ==
  /\ client.calls[c].pc = "pending" /\ client.calls[c].kind = "login"
  /\ client' = login(Ticked(client), c)
  /\ ServerIdle

LogoutTimeout(c) ==
  /\ client.calls[c].pc = "pending" /\ client.calls[c].kind = "logout"
  /\ client' = logout(Ticked(client), c)
  /\ ServerIdle

(* The page is loaded again: timers and closures are gone, the provider    *)
(* mounts anew, localStorage stays.                                        *)
Reload ==
  /\ client.page < MaxLoads
  /\ client' = [ClientStart(client.storage) EXCEPT
                  !.calls = [c \in 1..MaxCalls |->
                               IF client.calls[c].pc = "pending"
                                 THEN [client.calls[c] EXCEPT !.pc = "cancelled"]
                                 ELSE client.calls[c]],
                  !.clock = client.clock,
                  !.page = client.page + 1,
                  !.location = client.location]
  /\ ServerIdle

(* <Route path element={<ProtectedRoute allowedRoles=...>}> of AppContent. *)
RouteTable ==
  [path \in {"/", "/users", "/materials", "/categories", "/roles"} |->
     IF path \in {"/users", "/roles"} THEN <<"admin">>
     ELSE <<"user", "admin", "manager", "support">>]

includes(array, x) == \E i \in 1..Len(array) : array[i] = x

(* The component without its role check.                                   *)
ProtectedRouteNoRoleCheck(loading, currentUser, userRole, allowedRoles, location) ==
  IF loading THEN [outcome |-> "LoadingSpinner", to |-> "", from |-> ""]
  ELSE IF currentUser = <<>>
    THEN [outcome |-> "Navigate", to |-> "/login", from |-> location]
  ELSE [outcome |-> "children", to |-> "", from |-> ""]

(* ProtectedRoute (lines 432-471): what the component returns.             *)
ProtectedRoute(loading, currentUser, userRole, allowedRoles, location) ==
  IF loading THEN [outcome |-> "LoadingSpinner", to |-> "", from |-> ""]
  ELSE IF currentUser = <<>>
    THEN [outcome |-> "Navigate", to |-> "/login", from |-> location]
  ELSE IF Len(allowedRoles) > 0 /\ ~includes(allowedRoles, userRole)
    THEN [outcome |-> "AccessDenied", to |-> "", from |-> ""]
  ELSE [outcome |-> "children", to |-> "", from |-> ""]

(* What the page shows: the provider's own loading text while loading      *)
(* (lines 216-222), the route element of the location otherwise.           *)
Screen(cl) ==
  IF cl.loading THEN [outcome |-> "AuthLoading", to |-> "", from |-> ""]
  ELSE ProtectedRoute(cl.loading, cl.currentUser, cl.userRole,
                      RouteTable[cl.location], cl.location)

(* The user opens one of the protected pages.                              *)
Navigate(path) ==
  /\ path # client.location
  /\ client' = [client EXCEPT !.location = path]
  /\ ServerIdle

(* The pages the user opens: one open to every role, one for admins.      *)
NavigatePaths == {"/", "/users"}

RegisterInputs ==
  {<<EmailB, PwSecret, "user">>, <<EmailB, PwHunter, "admin">>,
   <<UserEmail, PwSecret, "user">>, <<EmailBad, PwSecret, "user">>,
   <<EmailB, PwShort, "user">>}

LoginInputs ==
  {<<AdminEmail, DemoPassword>>, <<UserEmail, DemoPassword>>, <<UserEmail, PwSecret>>,
   <<EmailB, PwSecret>>, <<EmailBad, DemoPassword>>, <<UserEmail, PwShort>>}

InitClient ==
  /\ users = <<>>
  /\ issued = {}
  /\ reqs = [r \in 1..NReq |-> Idle]
  /\ now = 0
  /\ hasRoleResult = NoCall
  /\ updateResult = NoUpdate
  /\ client \in {ClientStart(st) : st \in InitialStorages}

NextClient ==
  \/ CheckAuthStatus
  \/ \E c \in 1..MaxCalls, in \in RegisterInputs : CallRegister(c, in[1], in[2], in[3])
  \/ \E c \in 1..MaxCalls : RegisterTimeout(c)
  \/ \E c \in 1..MaxCalls, in \in LoginInputs : CallLogin(c, in[1], in[2])
  \/ \E c \in 1..MaxCalls : LoginTimeout(c)
  \/ \E c \in 1..MaxCalls : CallLogout(c)
  \/ \E c \in 1..MaxCalls : LogoutTimeout(c)
  \/ Reload
  \/ \E path \in NavigatePaths : Navigate(path)

SpecClient == InitClient /\ [][NextClient]_vars

(***************************************************************************)
(* The server starts on an empty store, or on the store left by one        *)
(* earlier registration whose token the client still holds; clients also   *)
(* hold tokens issued before the store was edited by other means.          *)
(***************************************************************************)
SeedUser ==
  [name |-> NameAl, email |-> EmailA, password |-> bcryptHash(PwSecret, "salt1"),
   role |-> "user", lastLogin |-> NoDate]

(* A token the seeded user got at time 0 under an earlier role and e-mail   *)
(* address, changed in the store since.                                    *)
StaleToken == jwtSign([id |-> 1, role |-> "support", email |-> EmailB], 0)

(* A token issued at time 0 to a user whose document has been removed      *)
(* from the store since.                                                   *)
OrphanToken == jwtSign([id |-> 9, role |-> "user", email |-> EmailB], 0)

Init ==
  /\ users \in {<<>>, <<SeedUser>>}
  /\ issued = IF users = <<>> THEN {OrphanToken}
              ELSE {jwtSign(Hydrate(users, 1, FALSE), 0), StaleToken, OrphanToken}
  /\ reqs = [r \in 1..NReq |-> Idle]
  /\ now = 0
  /\ hasRoleResult = NoCall
  /\ updateResult = NoUpdate
  /\ client = ClientStart(StorageEmpty)

Next ==
  \/ \E r \in 1..NReq, b \in LoginBodies : PostLogin(r, b)
  \/ \E r \in 1..NReq : LoginFindOne(r)
  \/ \E r \in 1..NReq : LoginSave(r)
  \/ \E r \in 1..NReq, b \in RegisterBodies : PostRegister(r, b)
  \/ \E r \in 1..NReq : RegisterFindOne(r)
  \/ \E r \in 1..NReq : RegisterSave(r)
  \/ \E r \in 1..NReq, h \in AuthInputs : GetMe(r, h)
  \/ \E r \in 1..NReq : MeFindById(r)
  \/ \E r \in 1..NReq, h \in AuthInputs, b \in CreateBodies : PostCreateUser(r, h, b)
  \/ \E r \in 1..NReq : CreateUserFindOne(r)
  \/ \E r \in 1..NReq : CreateUserSave(r)
  \/ \E r \in 1..NReq, h \in AuthInputs, b \in ChangeBodies : PostChangePassword(r, h, b)
  \/ \E r \in 1..NReq : ChangePasswordFindById(r)
  \/ \E r \in 1..NReq : ChangePasswordSave(r)
  \/ \E r \in 1..NReq, h \in AuthInputs : PostRefreshToken(r, h)
  \/ \E r \in 1..NReq : RefreshTokenFindById(r)
  \/ Tick

Spec == Init /\ [][Next]_vars

(***************************************************************************)
(* The User model called directly: User.create, User.findOneAndUpdate and  *)
(* the hasRole method of a stored user.                                    *)
(***************************************************************************)
UpdateShapes == {"top", "$set"}

(* { password: p } or { $set: { password: p } }                            *)
Update(shape, p) == [shape |-> shape, password |-> Plain(p)]

(* userSchema.pre('findOneAndUpdate') : the update as the hook leaves it   *)
(* and the calls it makes to next, in order.  update.password is the       *)
(* top-level key only; an empty string is falsy.                           *)
preFindOneAndUpdate(update, salt) ==
  IF update.shape = "top" /\ update.password.text # ""
    THEN IF Len(update.password.text) < PasswordMinLength
           THEN [update |-> update, nexts |-> <<"error", "next">>]
           ELSE [update |-> [update EXCEPT
                               !.password = bcryptHash(update.password.text, salt)],
                 nexts |-> <<"next">>]
    ELSE [update |-> update, nexts |-> <<"next">>]

(* Model.findOneAndUpdate({_id: id}, update) : the hook, then the write of *)
(* the password path unless the hook's first call to next carried an       *)
(* error.  [err, users].                                                   *)
findOneAndUpdate(store, id, update, salt) ==
  LET h == preFindOneAndUpdate(update, salt)
  IN IF Head(h.nexts) = "error" THEN [err |-> "Error", users |-> store]
     ELSE IF id \notin 1..Len(store) THEN [err |-> "", users |-> store]
     ELSE [err |-> "",
           users |-> [store EXCEPT ![id].password = h.update.password]]

ModelCreate(name, email, password, role) ==
  /\ \E salt \in Salts :
       LET w == save(users, NewUser(name, email, password, role), salt)
       IN users' = w.users
  /\ UNCHANGED <<reqs, issued, now, hasRoleResult, client, updateResult>>

ModelFindOneAndUpdate(id, shape, password) ==
  /\ id \in 1..Len(users)
  /\ \E salt \in Salts :
       LET w == findOneAndUpdate(users, id, Update(shape, password), salt)
       IN /\ users' = w.users
          /\ updateResult' =
               [shape |-> shape, password |-> password,
                nexts |-> preFindOneAndUpdate(Update(shape, password), salt).nexts,
                err |-> w.err, written |-> w.users # users]
  /\ UNCHANGED <<reqs, issued, now, hasRoleResult, client>>

ModelHasRole(id, requiredRole) ==
  /\ id \in 1..Len(users)
  /\ hasRoleResult' = [role |-> users[id].role, requiredRole |-> requiredRole,
                       result |-> hasRole(users[id].role, requiredRole)]
  /\ UNCHANGED <<users, reqs, issued, now, client, updateResult>>

RoleInputs == SchemaRoles \cup {"guest"}

InitUserModel ==
  /\ users = <<>>
  /\ issued = {}
  /\ reqs = [r \in 1..NReq |-> Idle]
  /\ now = 0
  /\ hasRoleResult = NoCall
  /\ updateResult = NoUpdate
  /\ client = ClientStart(StorageEmpty)

NextUserModel ==
  \/ \E e \in {EmailA, EmailB}, p \in {PwSecret, PwShort}, role \in SchemaRoles \cup {""} :
       ModelCreate(NameAl, e, p, role)
  \/ \E id \in 1..2, shape \in UpdateShapes, p \in {PwHunter, PwShort, PwNone} :
       ModelFindOneAndUpdate(id, shape, p)
  \/ \E id \in 1..2, requiredRole \in RoleInputs : ModelHasRole(id, requiredRole)

SpecUserModel == InitUserModel /\ [][NextUserModel]_vars

(***************************************************************************)
(* Vocabulary of the properties.                                           *)
(***************************************************************************)
Reqs == 1..NReq

Done(r) == reqs[r].pc = "done"

(* Request r ends in this step.                                            *)
Completes(r) == reqs[r].pc # "done" /\ reqs'[r].pc = "done"

(* p is the plaintext the stored value was hashed from, under some salt.   *)
Verifies(p, stored) == \E salt \in Salts : stored = bcryptHash(p, salt)

UsersWithEmail(e) == {i \in 1..Len(users) : users[i].email = e}

(* A register request whose body the route and the schema both accept.     *)
WellFormedRegister(r) ==
  /\ reqs[r].kind = "register"
  /\ registerValidate(reqs[r].body).status = 0
  /\ Len(trim(reqs[r].body.name)) >= NameMinLength
  /\ reqs[r].body.role \in SchemaRoles \cup {""}

(* The handler's lookup returned a stored user (its local existingUser).   *)
FoundExisting(r) == reqs[r].user # Null /\ "password" \notin DOMAIN reqs[r].user

CreatesEmail(r, e) ==
  /\ reqs[r].kind \in {"register", "createUser"}
  /\ toLowerCase(reqs[r].body.email) = e

(* C1: two completed well-formed registrations of the same e-mail address  *)
(* are each answered 201 or 409, never both 201 and never 500, and the     *)
(* store holds exactly one user with that address; when at least one of    *)
(* the two passed its lookup of an existing user and no third request      *)
(* creates that address, exactly one is answered 201 and the other 409.    *)
C1_RegisterSameEmailOnce ==
  \A r1 \in Reqs, r2 \in Reqs :
    (/\ r1 # r2
     /\ WellFormedRegister(r1) /\ WellFormedRegister(r2)
     /\ Done(r1) /\ Done(r2)
     /\ toLowerCase(reqs[r1].body.email) = toLowerCase(reqs[r2].body.email))
    => LET e == toLowerCase(reqs[r1].body.email)
       IN /\ reqs[r1].status \in {201, 409}
          /\ reqs[r2].status \in {201, 409}
          /\ ~(reqs[r1].status = 201 /\ reqs[r2].status = 201)
          /\ Cardinality(UsersWithEmail(e)) = 1
          /\ ((/\ ~FoundExisting(r1) \/ ~FoundExisting(r2)
               /\ \A r3 \in Reqs \ {r1, r2} : ~CreatesEmail(r3, e))
              => {reqs[r1].status, reqs[r2].status} = {201, 409})

(* Both handlers looked the address up before either saved, and both have  *)
(* answered.                                                               *)
C1_Witness ==
  \E r1 \in Reqs, r2 \in Reqs :
    /\ r1 # r2
    /\ WellFormedRegister(r1) /\ WellFormedRegister(r2)
    /\ Done(r1) /\ Done(r2)
    /\ reqs[r1].body.email = reqs[r2].body.email
    /\ ~FoundExisting(r1) /\ ~FoundExisting(r2)
    /\ reqs[r1].status = 201 /\ reqs[r2].status = 409

(* C2: every stored password is a bcrypt hash of a plaintext of at least   *)
(* six characters, after a save and after a findOneAndUpdate of any shape  *)
(* that sets the password.                                                 *)
C2_StoredPasswordsHashed ==
  \A i \in 1..Len(users) :
    /\ users[i].password.alg = "bcrypt"
    /\ Len(users[i].password.text) >= PasswordMinLength

(* A user was created by save and a findOneAndUpdate has since replaced    *)
(* the password it was created with.                                       *)
C2_Witness ==
  \E i \in 1..Len(users) : users[i].password.text # PwSecret

(* C3: every stored user whose role is above 'user' was created by an      *)
(* admin/create-user request that carried a valid admin token.             *)
C3_PrivilegedUsersCreatedByAdmin ==
  \A i \in 1..Len(users) :
    users[i].role # "user"
    => \E r \in Reqs :
         /\ reqs[r].kind = "createUser"
         /\ reqs[r].status = 201
         /\ reqs[r].identity # Null
         /\ reqs[r].identity.role = "admin"
         /\ reqs[r].user.id = i

(* A caller holding a valid token of a role other than admin.              *)
NonAdminCaller(r) == reqs[r].identity # Null /\ reqs[r].identity.role # "admin"

CreatedBy(r) ==
  {i \in 1..Len(users) : reqs[r].user # Null /\ reqs[r].user.id = i
                          /\ reqs[r].status = 201}

(* C4: an admin/create-user request carrying a valid token whose role is   *)
(* not admin is answered 403 at once, whatever its body, and neither reads *)
(* nor creates a user.                                                     *)
C4_NonAdminCreateUserForbidden ==
  \A r \in Reqs :
    (reqs[r].kind = "createUser" /\ NonAdminCaller(r))
    => /\ Done(r)
       /\ reqs[r].status = 403
       /\ reqs[r].user = Null
       /\ CreatedBy(r) = {}

(* Non-admin callers were refused with a body that an admin could have     *)
(* used, and with a body that fails validation.                            *)
C4_Witness ==
  /\ \E r \in Reqs :
       /\ reqs[r].kind = "createUser" /\ NonAdminCaller(r) /\ reqs[r].status = 403
       /\ validateEmail(reqs[r].body.email) /\ validatePassword(reqs[r].body.password)
       /\ reqs[r].body.role # ""
       /\ UsersWithEmail(toLowerCase(reqs[r].body.email)) # {}
  /\ \E r \in Reqs :
       /\ reqs[r].kind = "createUser" /\ NonAdminCaller(r) /\ reqs[r].status = 403
       /\ ~validateEmail(reqs[r].body.email)

HasPassword(body) ==
  \/ "password" \in DOMAIN body
  \/ "user" \in DOMAIN body /\ "password" \in DOMAIN body.user

(* C5: no response of login, register, /me or admin/create-user, success   *)
(* or error, carries a password field, at the top level or in its user.    *)
C5_NoPasswordInResponses ==
  \A r \in Reqs :
    (Done(r) /\ reqs[r].kind \in {"login", "register", "me", "createUser"})
    => ~HasPassword(reqs[r].res)

(* A login answered with a user object while the handler's document holds  *)
(* the stored hash, and a /me answered with a user object.                 *)
C5_Witness ==
  /\ \E r \in Reqs :
       /\ reqs[r].kind = "login" /\ reqs[r].status = 200
       /\ "password" \in DOMAIN reqs[r].user
       /\ "user" \in DOMAIN reqs[r].res
  /\ \E r \in Reqs :
       /\ reqs[r].kind = "me" /\ reqs[r].status = 200
       /\ "user" \in DOMAIN reqs[r].res

(* The handler of request r runs one of its steps.                         *)
Steps(r) == reqs'[r] # reqs[r]

(* C6: when the change-password handler checks a currentPassword that does *)
(* not verify against the stored hash, the request ends there with 401 and *)
(* the store is left as it was.                                            *)
C6_WrongCurrentPasswordRejected ==
  [][\A r \in Reqs :
       (/\ reqs[r].kind = "changePassword" /\ reqs[r].pc = "findById" /\ Steps(r)
        /\ reqs[r].identity.id \in 1..Len(users)
        /\ ~Verifies(reqs[r].body.currentPassword, users[reqs[r].identity.id].password))
       => /\ reqs'[r].pc = "done"
          /\ reqs'[r].status = 401
          /\ users' = users]_vars

(* A caller with a valid token sent a well-formed change-password whose    *)
(* currentPassword is not the stored one, and was answered 401.            *)
C6_Witness ==
  \E r \in Reqs :
    /\ reqs[r].kind = "changePassword" /\ Done(r) /\ reqs[r].status = 401
    /\ reqs[r].identity # Null
    /\ "password" \in DOMAIN reqs[r].user
    /\ validatePassword(reqs[r].body.newPassword)
    /\ ~Verifies(reqs[r].body.currentPassword, reqs[r].user.password)

C8_TokenAcceptedUntilExpiry ==
  \A t \in issued :
    \A route \in ProtectedRoutes :
      (routeGuard(route, t, now).status = 0)
        <=> (now < t.iat + JwtExpiresInDays * TicksPerDay)

(* At one instant an issued token has expired and a later one is valid.    *)
C8_Witness ==
  \E t1 \in issued, t2 \in issued :
    /\ now >= t1.iat + JwtExpiresInDays * TicksPerDay
    /\ now < t2.iat + JwtExpiresInDays * TicksPerDay
    /\ routeGuard("me", t1, now).status = 401
    /\ routeGuard("me", t2, now).status = 0

(* No header, not a token, not signed by the server, or expired at time t. *)
BadCredential(h, t) ==
  \/ h.kind = "none"
  \/ h.kind = "malformed"
  \/ h.kind = "jwt" /\ (h.secret # JWT_SECRET \/ t >= h.exp)

(* C9: a request to a protected route that arrives with a missing header,  *)
(* a malformed or forged token or an expired token is answered 401 on      *)
(* arrival: no identity is set, no user is read, the store and the set of  *)
(* issued tokens stay as they were, and the request takes no later step.   *)
C9_BadCredentialShortCircuits ==
  [][\A r \in Reqs :
       /\ (/\ reqs[r].pc = "idle" /\ Steps(r)
           /\ reqs'[r].kind \in ProtectedRoutes
           /\ BadCredential(reqs'[r].auth, now))
          => /\ reqs'[r].pc = "done" /\ reqs'[r].status = 401
             /\ reqs'[r].identity = Null /\ reqs'[r].user = Null
             /\ "token" \notin DOMAIN reqs'[r].res
             /\ users' = users /\ issued' = issued
       /\ Done(r) => ~Steps(r)]_vars

(* A refresh-token request presented a token the server had issued, after  *)
(* its expiry, and was answered 401.                                       *)
C9_Witness ==
  \E r \in Reqs :
    /\ reqs[r].kind = "refreshToken" /\ Done(r) /\ reqs[r].status = 401
    /\ reqs[r].auth \in issued
    /\ now >= reqs[r].auth.exp

RoleOrder == <<"user", "support", "manager", "admin">>

Rank(role) == CHOOSE i \in 1..Len(RoleOrder) : RoleOrder[i] = role

(* C10: for roles of the enumerated set, hasRole(requiredRole) of a user   *)
(* is true exactly when the user's rank is at least the required rank in   *)
(* user < support < manager < admin, and the relation is a total order.    *)
C10_HasRoleIsRankOrder ==
  /\ (hasRoleResult # NoCall /\ hasRoleResult.requiredRole \in SchemaRoles)
       => hasRoleResult.result =
            (Rank(hasRoleResult.role) >= Rank(hasRoleResult.requiredRole))
  /\ \A a \in SchemaRoles, b \in SchemaRoles :
       /\ hasRole(a, b) <=> Rank(a) >= Rank(b)
       /\ hasRole(a, a)
       /\ hasRole(a, b) \/ hasRole(b, a)
       /\ (hasRole(a, b) /\ hasRole(b, a)) => a = b
       /\ \A c \in SchemaRoles : (hasRole(a, b) /\ hasRole(b, c)) => hasRole(a, c)

(* A stored support user was asked for the manager role and refused.       *)
C10_Witness ==
  hasRoleResult = [role |-> "support", requiredRole |-> "manager", result |-> FALSE]

(* The roles an allowedRoles array names.                                  *)
RoleSet(allowedRoles) == {allowedRoles[i] : i \in 1..Len(allowedRoles)}

(* The one outcome the route guard is to yield for its four inputs.        *)
GuardOutcome(loading, currentUser, userRole, allowedRoles) ==
  CASE loading -> "LoadingSpinner"
    [] ~loading /\ currentUser = <<>> -> "Navigate"
    [] ~loading /\ currentUser # <<>> /\ allowedRoles # <<>>
         /\ userRole \notin RoleSet(allowedRoles) -> "AccessDenied"
    [] OTHER -> "children"

(* C11: ProtectedRoute yields the loading indicator while loading, the     *)
(* redirect to /login carrying the requested location while not loading    *)
(* and without a current user, the access-denied view for a user whose     *)
(* role is not in a non-empty allowed set, and the children otherwise; and *)
(* the page on screen shows protected children only when the provider is   *)
(* not loading, has a current user and the role is allowed for the page.   *)
C11_ProtectedRouteOutcomes ==
  /\ \A loading \in BOOLEAN,
        currentUser \in {<<>>, <<[email |-> UserEmail, uid |-> Id("user", 456)]>>},
        userRole \in {"guest", "user", "manager", "admin"},
        allowedRoles \in {<<>>, <<"admin">>, <<"user", "admin", "manager", "support">>},
        location \in DOMAIN RouteTable :
       LET v == ProtectedRoute(loading, currentUser, userRole, allowedRoles, location)
       IN /\ v.outcome = GuardOutcome(loading, currentUser, userRole, allowedRoles)
          /\ v.outcome = "Navigate" => (v.to = "/login" /\ v.from = location)
  /\ Screen(client).outcome = "children"
       => /\ ~client.loading
          /\ client.currentUser # <<>>
          /\ client.userRole \in RoleSet(RouteTable[client.location])

(* A signed-in user with role 'user' has opened the admin page and is      *)
(* shown the access-denied view.                                           *)
C11_Witness ==
  /\ ~client.loading
  /\ client.currentUser # <<>>
  /\ client.userRole = "user"
  /\ client.location = "/users"
  /\ Screen(client).outcome = "AccessDenied"

Calls == 1..MaxCalls

(* The timer of call c fires in this step.                                 *)
Settles(c) == client.calls[c].pc = "pending" /\ client'.calls[c].pc = "done"

TypedCodes ==
  {"auth/invalid-credential", "auth/invalid-email", "auth/weak-password",
   "auth/email-already-in-use"}

(* The session in memory and the session in storage are both that of the   *)
(* user with this e-mail, id and role.                                     *)
SessionIs(cl, email, id, role) ==
  /\ cl.currentUser = <<[email |-> email, uid |-> id]>>
  /\ cl.userId = <<id>>
  /\ cl.userRole = role
  /\ cl.storage.currentUser # <<>>
  /\ JSONparse(cl.storage.currentUser[1]) =
       [ok |-> TRUE, value |-> [email |-> email, uid |-> id]]
  /\ cl.storage.userId = <<id>>
  /\ cl.storage.userRole = <<role>>

(* C12: when a login or register call settles it either resolves, and     *)
(* then memory and storage hold the session of that user (for register     *)
(* the new user with the role given, for login a user of the table with    *)
(* that e-mail and password), or rejects with one of the four typed codes, *)
(* and then memory and storage are as they were.                           *)
C12_LoginRegisterSettle ==
  [][\A c \in Calls :
       (Settles(c) /\ client.calls[c].kind \in {"login", "register"})
       => LET q == client'.calls[c]
          IN \/ /\ q.outcome = "resolved"
                /\ q.user # <<>> /\ q.user[1].email = q.email
                /\ \E u \in client'.tables[q.gen] :
                     /\ u.email = q.email /\ u.password = q.password
                     /\ q.kind = "register" => u.role = q.role
                     /\ SessionIs(client', q.email, u.id, u.role)
                     /\ q.user[1].uid = u.id
             \/ /\ q.outcome \in TypedCodes
                /\ Memory(client') = Memory(client)
                /\ client'.storage = client.storage]_vars

(* A login has resolved, and a later call was rejected while that session  *)
(* was in place.                                                           *)
C12_Witness ==
  \E c1 \in Calls, c2 \in Calls :
    /\ c1 < c2
    /\ client.calls[c1].kind = "login" /\ client.calls[c1].outcome = "resolved"
    /\ client.calls[c2].kind \in {"login", "register"}
    /\ client.calls[c2].outcome \in TypedCodes
    /\ client.calls[c2].page = client.calls[c1].page
    /\ client.currentUser # <<>>

(* C13: when a logout call settles it resolves, and whatever the session   *)
(* was, currentUser and userId are null, userRole is 'guest' and none of   *)
(* the three keys is left in storage.                                      *)
C13_LogoutClearsSession ==
  [][\A c \in Calls :
       (Settles(c) /\ client.calls[c].kind = "logout")
       => /\ client'.calls[c].outcome = "resolved"
          /\ client'.currentUser = <<>>
          /\ client'.userId = <<>>
          /\ client'.userRole = "guest"
          /\ \A k \in StorageKeys : client'.storage[k] = <<>>]_vars

(* A logout has resolved after a login had resolved on the same page.      *)
C13_Witness ==
  \E c1 \in Calls, c2 \in Calls :
    /\ c1 < c2
    /\ client.calls[c1].kind = "login" /\ client.calls[c1].outcome = "resolved"
    /\ client.calls[c2].kind = "logout" /\ client.calls[c2].outcome = "resolved"
    /\ client.calls[c2].page = client.calls[c1].page
    /\ client.calls[c2].gen > client.calls[c1].gen
    /\ client.currentUser = <<>>

(* The request body misses a field the route requires, carries a malformed *)
(* e-mail address, or carries a password to be stored or matched against a *)
(* stored one (for change-password the new password) of fewer than six     *)
(* characters.                                                             *)
InvalidInput(kind, b) ==
  CASE kind = "login" ->
         b.email = <<>> \/ b.password = "" \/ ~validateEmail(b.email) \/ Len(b.password) < 6
    [] kind = "register" ->
         \/ b.name = <<>> \/ b.email = <<>> \/ b.password = ""
         \/ ~validateEmail(b.email) \/ Len(b.password) < 6
    [] kind = "createUser" ->
         \/ b.name = <<>> \/ b.email = <<>> \/ b.password = "" \/ b.role = ""
         \/ ~validateEmail(b.email) \/ Len(b.password) < 6
    [] kind = "changePassword" ->
         b.currentPassword = "" \/ b.newPassword = "" \/ Len(b.newPassword) < 6
    [] OTHER -> FALSE

(* The request reaches the handler's input checks: it passes the           *)
(* middleware where the route has one, and the admin check of create-user. *)
ReachesValidation(q, t) ==
  /\ q.kind \in {"createUser", "changePassword"} => ~BadCredential(q.auth, t)
  /\ q.kind = "createUser" => q.auth.role = "admin"

(* C14: a login, register, create-user or change-password request whose    *)
(* input is invalid is answered 400 in the step that receives it: no user  *)
(* is read, nothing is hashed or compared, and the store and the issued    *)
(* tokens are as before.                                                   *)
C14_InvalidInputRejectedFirst ==
  [][\A r \in Reqs :
       (/\ reqs[r].pc = "idle" /\ Steps(r)
        /\ ReachesValidation(reqs'[r], now)
        /\ InvalidInput(reqs'[r].kind, reqs'[r].body))
       => /\ reqs'[r].pc = "done" /\ reqs'[r].status = 400
          /\ reqs'[r].user = Null
          /\ users' = users /\ issued' = issued]_vars

(* A change-password with a valid token and a new password of three        *)
(* characters, and a login with a malformed address, were both answered    *)
(* 400.                                                                    *)
C14_Witness ==
  \E r1 \in Reqs, r2 \in Reqs :
    /\ reqs[r1].kind = "changePassword" /\ reqs[r1].status = 400
    /\ reqs[r1].auth \in issued /\ reqs[r1].identity # Null
    /\ reqs[r1].body.newPassword = PwShort
    /\ reqs[r2].kind = "login" /\ reqs[r2].status = 400
    /\ ~validateEmail(reqs[r2].body.email)

(* Two addresses equal up to the case of their letters.                    *)
SameIgnoringCase(e1, e2) == toLowerCase(e1) = toLowerCase(e2)

(* C15: no two stored users have e-mail addresses that are equal ignoring  *)
(* case; a register that looks up an address equal, ignoring case, to a    *)
(* stored user's is answered 409 and stores nothing; a login that looks up *)
(* such an address finds that user.                                        *)
C15_EmailCaseInsensitive ==
  /\ [](\A i \in 1..Len(users), j \in 1..Len(users) :
          SameIgnoringCase(users[i].email, users[j].email) => i = j)
  /\ [][\A r \in Reqs :
          (/\ reqs[r].pc = "findOne" /\ Steps(r)
           /\ \E i \in 1..Len(users) : SameIgnoringCase(users[i].email, reqs[r].body.email))
          => /\ reqs[r].kind = "register"
                  => /\ reqs'[r].pc = "done" /\ reqs'[r].status = 409
                     /\ users' = users
             /\ reqs[r].kind = "login"
                  => /\ reqs'[r].user # Null
                     /\ SameIgnoringCase(users[reqs'[r].user.id].email,
                                         reqs[r].body.email)]_vars

(* With a@x.c stored, a register of A@x.c was answered 409 and a login as  *)
(* A@x.c succeeded.                                                        *)
C15_Witness ==
  \E r1 \in Reqs, r2 \in Reqs :
    /\ reqs[r1].kind = "register" /\ reqs[r1].body.email = EmailAUpper
    /\ reqs[r1].status = 409
    /\ reqs[r2].kind = "login" /\ reqs[r2].body.email = EmailAUpper
    /\ reqs[r2].status = 200
    /\ users[reqs[r2].user.id].email = EmailA

(* Request r is a change-password that was answered 200.                   *)
ChangedPassword(r) ==
  reqs[r].kind = "changePassword" /\ Done(r) /\ reqs[r].status = 200

(* C16: the save of a change-password that is answered 200 stores for the  *)
(* caller a salted hash that newPassword verifies against and, when the    *)
(* two differ, that currentPassword does not; and while that hash is the   *)
(* stored one, a login of that user that reaches the password check goes   *)
(* on to its 200 with newPassword and is answered 401 with the old one.    *)
C16_ChangedPasswordIsNewHash ==
  [][\A r \in Reqs :
       /\ (/\ reqs[r].kind = "changePassword" /\ reqs[r].pc = "save" /\ Steps(r)
           /\ reqs'[r].status = 200)
          => LET i == reqs[r].identity.id
                 b == reqs[r].body
             IN /\ users'[i].password.alg = "bcrypt"
                /\ Verifies(b.newPassword, users'[i].password)
                /\ b.newPassword # b.currentPassword
                     => ~Verifies(b.currentPassword, users'[i].password)
                /\ users' = [users EXCEPT ![i].password = users'[i].password]
       /\ \A c \in Reqs :
            (/\ ChangedPassword(c)
             /\ users[reqs[c].identity.id].password = reqs[c].user.password
             /\ reqs[r].kind = "login" /\ reqs[r].pc = "findOne" /\ Steps(r)
             /\ SameIgnoringCase(reqs[r].body.email, users[reqs[c].identity.id].email))
            => /\ reqs[r].body.password = reqs[c].body.newPassword
                    => reqs'[r].pc = "save"
               /\ (/\ reqs[r].body.password = reqs[c].body.currentPassword
                   /\ reqs[c].body.currentPassword # reqs[c].body.newPassword)
                    => (reqs'[r].pc = "done" /\ reqs'[r].status = 401)]_vars

(* A password was changed from secret1 to hunter22 and a login with        *)
(* hunter22 then succeeded.                                                *)
C16_Witness ==
  \E c \in Reqs, r \in Reqs :
    /\ ChangedPassword(c)
    /\ reqs[c].body.currentPassword = PwSecret /\ reqs[c].body.newPassword = PwHunter
    /\ reqs[r].kind = "login" /\ reqs[r].status = 200
    /\ reqs[r].body.password = PwHunter
    /\ reqs[r].user.id = reqs[c].identity.id

(* C17: after a change-password was answered 200, the token it was made    *)
(* with, issued before the change, still passes the middleware of every    *)
(* protected route with its own payload for as long as it has not expired. *)
C17_TokensSurvivePasswordChange ==
  \A c \in Reqs :
    ChangedPassword(c)
    => LET t == reqs[c].auth
       IN /\ t \in issued
          /\ now < t.iat + JwtExpiresInDays * TicksPerDay
               => \A route \in ProtectedRoutes :
                    routeGuard(route, t, now) =
                      [status |-> 0,
                       user |-> [id |-> t.id, role |-> t.role, email |-> t.email]]

(* The seeded user's password has been changed with the token issued at    *)
(* time 0, time has passed, the token has not expired and the next request *)
(* has yet to arrive.                                                      *)
C17_Witness ==
  \E c \in Reqs, r \in Reqs :
    /\ ChangedPassword(c)
    /\ reqs[c].auth.iat = 0 /\ now > 0 /\ now < reqs[c].auth.exp
    /\ Verifies(reqs[c].body.newPassword, users[reqs[c].identity.id].password)
    /\ reqs[c].body.newPassword # reqs[c].body.currentPassword
    /\ reqs[r].pc = "idle"
    /\ routeGuard("me", reqs[c].auth, now).status = 0

(* Request r was answered with a token.                                    *)
GotToken(r) == Done(r) /\ "token" \in DOMAIN reqs[r].res

(* C18: the token a login returns differs from the token returned by the   *)
(* registration, and by any other login, of the same user.                 *)
C18_LoginTokenIsNew ==
  \A r1 \in Reqs, r2 \in Reqs :
    (/\ r1 # r2
     /\ GotToken(r1) /\ reqs[r1].kind \in {"register", "login"}
     /\ GotToken(r2) /\ reqs[r2].kind = "login"
     /\ reqs[r1].res.token.id = reqs[r2].res.token.id)
    => reqs[r1].res.token # reqs[r2].res.token

(* Call c is a login or register that resolved, and storage still holds    *)
(* the session it persisted.                                               *)
PersistedBy(cl, c) ==
  /\ cl.calls[c].kind \in {"login", "register"}
  /\ cl.calls[c].outcome = "resolved"
  /\ cl.storage.currentUser = <<JSONstringify(cl.calls[c].user[1])>>
  /\ cl.storage.userId = <<cl.calls[c].user[1].uid>>
  /\ cl.storage.userRole # <<>>

(* C19: when the provider checks the persisted session at load and storage *)
(* holds the session a resolved login or register persisted, it ends       *)
(* authenticated with the persisted e-mail, id and role.                   *)
C19_PersistedSessionRestored ==
  [][\A c \in Calls :
       (client.loading /\ ~client'.loading /\ PersistedBy(client, c))
       => /\ SessionIs(client', client.calls[c].email,
                       client.calls[c].user[1].uid, client.storage.userRole[1])
          /\ client'.storage = client.storage]_vars

(* The session of a demo user who logged in was restored at the next load. *)
C19_Witness ==
  \E c \in Calls :
    /\ client.calls[c].kind = "login" /\ client.calls[c].outcome = "resolved"
    /\ client.page > client.calls[c].page
    /\ ~client.loading
    /\ SessionIs(client, client.calls[c].email, client.calls[c].user[1].uid, "user")

(* The e-mail belongs to a demo user or to a user created by a register    *)
(* that resolved earlier on this page.                                     *)
KnownEmail(cl, email) ==
  \/ \E u \in simulatedUsers : u.email = email
  \/ \E c \in Calls :
       /\ cl.calls[c].kind = "register" /\ cl.calls[c].outcome = "resolved"
       /\ cl.calls[c].page = cl.page
       /\ cl.calls[c].email = email

(* C20: a register whose e-mail belongs to a known user rejects with       *)
(* auth/email-already-in-use and leaves session and storage as they were.  *)
C20_RegisterKnownEmailRejected ==
  [][\A c \in Calls :
       (/\ Settles(c) /\ client.calls[c].kind = "register"
        /\ clientValidatePassword(client.calls[c].password)
        /\ KnownEmail(client, client.calls[c].email))
       => /\ client'.calls[c].outcome = "auth/email-already-in-use"
          /\ Memory(client') = Memory(client)
          /\ client'.storage = client.storage]_vars

(* A register of a demo user's e-mail was rejected as already in use.      *)
C20_Witness ==
  \E c \in Calls :
    /\ client.calls[c].kind = "register" /\ client.calls[c].email = UserEmail
    /\ client.calls[c].outcome = "auth/email-already-in-use"

(* C21: for every update run through findOneAndUpdate the pre-hook calls   *)
(* next exactly once: with an error, the update rejected and the store     *)
(* unchanged, when the update carries a password of fewer than six         *)
(* characters, and without error when it carries one of six or more.       *)
C21_UpdateHookSignalsOnce ==
  updateResult # NoUpdate
  => /\ Len(updateResult.nexts) = 1
     /\ (updateResult.password # "" /\ Len(updateResult.password) < 6)
          => /\ updateResult.nexts = <<"error">>
             /\ updateResult.err # ""
             /\ ~updateResult.written
     /\ Len(updateResult.password) >= 6
          => (updateResult.nexts = <<"next">> /\ updateResult.err = "")

(* The provider's effect ends the loading phase in this step.              *)
LeavesLoading == client.loading /\ ~client'.loading

(* The three keys are present and the currentUser item cannot be parsed,   *)
(* or names an e-mail the user table does not hold.                        *)
UnusableSession(st) ==
  /\ \A k \in StorageKeys : st[k] # <<>>
  /\ \/ ~JSONparse(st.currentUser[1]).ok
     \/ \A u \in simulatedUsers : u.email # JSONparse(st.currentUser[1]).value.email

(* C22: within one mount the provider's loading phase is ended by the      *)
(* first step that changes its state or storage, whatever storage holds,   *)
(* and loading does not become true again; when storage holds unparseable  *)
(* data or an unknown user, that step removes the three keys and leaves    *)
(* currentUser and userId null and the role 'guest'.                       *)
C22_LoadingEndsOnce ==
  [][/\ (/\ client.loading /\ client'.page = client.page
         /\ <<Memory(client'), client'.storage>> # <<Memory(client), client.storage>>)
        => ~client'.loading
     /\ (~client.loading /\ client'.page = client.page) => ~client'.loading
     /\ (LeavesLoading /\ UnusableSession(client.storage))
        => /\ client'.storage = StorageEmpty
           /\ client'.currentUser = <<>>
           /\ client'.userId = <<>>
           /\ client'.userRole = "guest"]_vars

(* A user created by register was persisted, the page was loaded again     *)
(* with nothing else done, and the provider has ended loading with the     *)
(* keys removed.                                                           *)
C22_Witness ==
  /\ ~client.loading /\ client.page = 2
  /\ client.calls[1].kind = "register" /\ client.calls[1].outcome = "resolved"
  /\ client.calls[1].page = 1
  /\ \A c \in Calls \ {1} : client.calls[c].pc = "idle"
  /\ client.storage = StorageEmpty
  /\ client.currentUser = <<>> /\ client.userRole = "guest"

(* C23: the save of a login that is answered 200 changes nothing in the    *)
(* store but the lastLogin of the user logged in: the stored password hash *)
(* is the same value before and after, and every password that verified    *)
(* against it before still does.                                           *)
C23_LoginKeepsPasswordHash ==
  [][\A r \in Reqs :
       (/\ reqs[r].kind = "login" /\ reqs[r].pc = "save" /\ Steps(r)
        /\ reqs'[r].status = 200)
       => LET i == reqs[r].user.id
          IN /\ Len(users') = Len(users)
             /\ users'[i].password = users[i].password
             /\ \A f \in DOMAIN users[i] \ {"lastLogin"} : users'[i][f] = users[i][f]
             /\ \A j \in 1..Len(users) : j # i => users'[j] = users[j]
             /\ \A pw \in {PwSecret, PwHunter} :
                  Verifies(pw, users[i].password) <=> Verifies(pw, users'[i].password)]_vars

(* The seeded user has logged in twice with the same password, and the     *)
(* stored hash is still the one the store started with.                    *)
C23_Witness ==
  \E r1 \in Reqs, r2 \in Reqs :
    /\ r1 # r2
    /\ reqs[r1].kind = "login" /\ reqs[r1].status = 200
    /\ reqs[r2].kind = "login" /\ reqs[r2].status = 200
    /\ reqs[r1].user.id = 1 /\ reqs[r2].user.id = 1
    /\ reqs[r1].body.password = PwSecret /\ reqs[r2].body.password = PwSecret
    /\ users[1].password = SeedUser.password
    /\ users[1].lastLogin # NoDate

(* Call c was made, on the page of call c0, after c0 had resolved.         *)
MadeAfter(cl, c, c0) ==
  /\ cl.calls[c0].outcome = "resolved"
  /\ cl.calls[c].page = cl.calls[c0].page
  /\ cl.calls[c].gen > cl.calls[c0].gen

(* C24: a login made after a register of the same e-mail and password and  *)
(* a later logout have both resolved on the page resolves, and the session *)
(* then carries the id and the role given at registration.                 *)
C24_LoginAfterRegisterAndLogout ==
  [][\A c \in Calls, reg \in Calls, out \in Calls :
       (/\ Settles(c) /\ client.calls[c].kind = "login"
        /\ client.calls[reg].kind = "register"
        /\ client.calls[out].kind = "logout"
        /\ MadeAfter(client, out, reg) /\ MadeAfter(client, c, out)
        /\ client.calls[c].email = client.calls[reg].email
        /\ client.calls[c].password = client.calls[reg].password)
       => /\ client'.calls[c].outcome = "resolved"
          /\ SessionIs(client', client.calls[reg].email,
                       client.calls[reg].user[1].uid, client.calls[reg].role)]_vars

(* C25: whenever the provider is not loading, currentUser is null exactly  *)
(* when userId is null exactly when userRole is 'guest', and storage holds *)
(* either all three keys with the values of the session in memory, or      *)
(* none of them, the session in memory then being empty.                   *)
C25_SessionConsistent ==
  ~client.loading
  => /\ (client.currentUser = <<>>) <=> (client.userId = <<>>)
     /\ (client.userId = <<>>) <=> (client.userRole = "guest")
     /\ \/ /\ \A k \in StorageKeys : client.storage[k] # <<>>
           /\ client.currentUser # <<>>
           /\ JSONparse(client.storage.currentUser[1]) =
                [ok |-> TRUE, value |-> client.currentUser[1]]
           /\ client.storage.userId = client.userId
           /\ client.storage.userRole = <<client.userRole>>
           /\ client.currentUser[1].uid = client.userId[1]
        \/ /\ \A k \in StorageKeys : client.storage[k] = <<>>
           /\ client.currentUser = <<>>

(* A register, a logout and a login of a demo user have resolved, the page *)
(* has been loaded again and the demo user's session is in memory and in   *)
(* storage.                                                                *)
C25_Witness ==
  /\ ~client.loading /\ client.page = 2
  /\ \E c1 \in Calls, c2 \in Calls, c3 \in Calls :
       /\ client.calls[c1].kind = "register" /\ client.calls[c1].outcome = "resolved"
       /\ client.calls[c2].kind = "logout" /\ client.calls[c2].outcome = "resolved"
       /\ client.calls[c3].kind = "login" /\ client.calls[c3].outcome = "resolved"
  /\ client.currentUser # <<>>
  /\ client.storage.userId = client.userId

(* The session in memory is the one restored at this load: no login or     *)
(* register has resolved on the page since.                                *)
RestoredSession(cl) ==
  /\ ~cl.loading
  /\ cl.currentUser # <<>>
  /\ \A c \in Calls :
       (cl.calls[c].page = cl.page /\ cl.calls[c].kind \in {"login", "register"})
       => cl.calls[c].outcome # "resolved"

(* C26: a session restored at load has in memory the role the user table   *)
(* records for the restored e-mail, and shows the children of a page only  *)
(* if that recorded role is in the page's allowed set.                     *)
C26_RestoredRoleIsTableRole ==
  RestoredSession(client)
  => \A u \in simulatedUsers :
       u.email = client.currentUser[1].email
       => /\ client.userRole = u.role
          /\ Screen(client).outcome = "children"
               => u.role \in RoleSet(RouteTable[client.location])

(* C27: the refresh-token handler, looking up the caller's id, answers 200 *)
(* with a newly issued token that carries the id, role and e-mail of the   *)
(* stored user, whatever role and e-mail the presented token carries, when *)
(* the user is stored, and 404 with no token issued when it is not.        *)
C27_RefreshUsesStoredUser ==
  [][\A r \in Reqs :
       (reqs[r].kind = "refreshToken" /\ reqs[r].pc = "findById" /\ Steps(r))
       => LET i == reqs[r].identity.id
          IN IF i \in 1..Len(users)
               THEN /\ reqs'[r].status = 200
                    /\ "token" \in DOMAIN reqs'[r].res
                    /\ reqs'[r].res.token \in issued'
                    /\ reqs'[r].res.token.id = i
                    /\ reqs'[r].res.token.role = users[i].role
                    /\ reqs'[r].res.token.email = users[i].email
                    /\ reqs'[r].res.token.iat = now
               ELSE /\ reqs'[r].status = 404
                    /\ "token" \notin DOMAIN reqs'[r].res
                    /\ issued' = issued]_vars

(* A refresh with the token that carries an outdated role and address was  *)
(* answered with a token carrying the stored ones, and a refresh with the  *)
(* token of a removed user was answered 404.                               *)
C27_Witness ==
  /\ \E r \in Reqs :
       /\ reqs[r].kind = "refreshToken" /\ reqs[r].status = 200
       /\ reqs[r].auth = StaleToken
       /\ reqs[r].res.token.role = "user" /\ reqs[r].res.token.email = EmailA
  /\ \E r \in Reqs :
       /\ reqs[r].kind = "refreshToken" /\ reqs[r].status = 404
       /\ reqs[r].auth = OrphanToken

(* A login or register call made on the page of logout call out after out  *)
(* had resolved has itself resolved.                                        *)
SignedInAgainAfter(cl, out) ==
  \E k \in Calls :
    /\ cl.calls[k].kind \in {"login", "register"}
    /\ cl.calls[k].pc = "done" /\ cl.calls[k].outcome = "resolved"
    /\ cl.calls[k].page = cl.calls[out].page
    /\ k > out /\ cl.calls[k].gen > cl.calls[out].gen

(* C28: when a login or register call that was made before a logout call   *)
(* settles after that logout has resolved on the same page, and no login   *)
(* or register made after the logout's resolution has resolved, the        *)
(* session is still empty in memory and in storage.                        *)
C28_PendingCallNeverSignsInAfterLogout ==
  [][\A c \in Calls, out \in Calls :
       (/\ Settles(c) /\ client.calls[c].kind \in {"login", "register"}
        /\ c < out
        /\ client.calls[out].kind = "logout"
        /\ client.calls[out].pc = "done" /\ client.calls[out].outcome = "resolved"
        /\ client.calls[out].page = client.calls[c].page
        /\ client.page = client.calls[c].page
        /\ ~SignedInAgainAfter(client, out))
       => /\ client'.currentUser = <<>>
          /\ client'.userId = <<>>
          /\ client'.userRole = "guest"
          /\ client'.storage = StorageEmpty]_vars

====
